---------------------------- MODULE Spec2Model ----------------------------
(***************************************************************************)
(* Model of psantosh16/bookmark_server.                                    *)
(*                                                                         *)
(*   services/firebase.py  class FirebaseService: a lazily initialised     *)
(*                         singleton around firebase_admin.initialize_app  *)
(*   app.py                the import-time start-up sequence of the        *)
(*                         FastAPI application and its two routes          *)
(*                                                                         *)
(* FirebaseService.__new__ and _initialize_firebase are modelled one       *)
(* attribute read or write per step, which is the grain at which CPython   *)
(* threads interleave.  A raised exception ends the call and is recorded   *)
(* in err[t].                                                              *)
(*                                                                         *)
(* The process environment, the .env file and the file system are inputs   *)
(* chosen in the initial state; only load_dotenv() changes os.environ.     *)
(* Spec and SeqSpec exercise the class on its own (any thread may call     *)
(* FirebaseService()), AppSpec runs the import of app.py statement by      *)
(* statement and lets clients send requests at any time.                   *)
(***************************************************************************)
EXTENDS Integers, FiniteSets, Sequences, TLC

\* ------------------------------------------------------------------ bounds
NumThreads == 2     \* threads that call FirebaseService()
MaxCalls   == 2     \* FirebaseService() calls per thread

Threads == 1..NumThreads
MainThread == 1     \* the thread that imports app.py

\* ------------------------------------------------------- values and inputs
None == 0           \* Python None for object references (ids start at 1)

Unset == "<unset>"  \* an environment variable that is not set
DefaultCredPath == "firebase_credentials.json"
Paths == {DefaultCredPath, "alt_credentials.json"}
EnvValues == Paths \cup {Unset}

FileStates == {"absent", "valid", "malformed"}

NoErr == "none"
Errors == {NoErr, "RuntimeError", "FileNotFoundError", "CertificateError",
           "ValueError", "AttributeError"}

VARIABLES
    environ,      \* os.environ['FIREBASE_CRED_PATH'] or Unset
    dotenv,       \* FIREBASE_CRED_PATH in the .env file, or Unset
    files,        \* path -> state of the file at that path
    _instance,    \* FirebaseService._instance
    _app,         \* FirebaseService._app
    apps,         \* firebase_admin's registry entry of the default app
    nextObj,      \* id of the next object super().__new__ allocates
    initCalls,    \* number of initialize_app invocations so far
    pc,           \* thread -> position inside FirebaseService()
    path,         \* thread -> local FIREBASE_CRED_PATH of _initialize_firebase
    handle,       \* thread -> value initialize_app returned, not yet stored
    ret,          \* thread -> value the last completed call returned
    err,          \* thread -> exception the last completed call raised
    ncalls,       \* thread -> number of calls started
    appPc,        \* position of the import of app.py
    abortErr,     \* exception that ended the import of app.py
    routes,       \* paths registered on the FastAPI app
    last          \* the last request a client made and what it observed

classVars  == <<_instance, _app, apps, nextObj, initCalls>>
threadVars == <<pc, path, handle, ret, err, ncalls>>
envVars    == <<environ, dotenv, files>>
appVars    == <<appPc, abortErr, routes, last>>
vars == <<environ, dotenv, files, _instance, _app, apps, nextObj, initCalls,
          pc, path, handle, ret, err, ncalls, appPc, abortErr, routes, last>>

\* --------------------------------------------------------- pure functions
\* os.getenv('FIREBASE_CRED_PATH', 'firebase_credentials.json')
Getenv(env) == IF env = Unset THEN DefaultCredPath ELSE env

\* variant: the existence check is skipped (a missing file is not noticed)
CredentialMissing_Ignored(p) == FALSE

\* `not os.path.exists(FIREBASE_CRED_PATH)`
CredentialMissing(p) == files[p] = "absent"

\* variant: the singleton check is dropped (every call constructs anew)
InstanceIsNone_Dropped == TRUE

\* `cls._instance is None`
InstanceIsNone == _instance = None

\* `cls._app is None`
AppIsNone == _app = None

\* ------------------------------------------------------------------- Init
ClassInit ==
    /\ _instance = None
    /\ _app = None
    /\ apps = None
    /\ nextObj = 1
    /\ initCalls = 0

ThreadInit ==
    /\ pc = [t \in Threads |-> "idle"]
    /\ path = [t \in Threads |-> Unset]
    /\ handle = [t \in Threads |-> None]
    /\ ret = [t \in Threads |-> None]
    /\ err = [t \in Threads |-> NoErr]
    /\ ncalls = [t \in Threads |-> 0]

Init ==
    /\ environ \in EnvValues
    /\ dotenv = Unset
    /\ files \in [Paths -> FileStates]
    /\ ClassInit
    /\ ThreadInit
    /\ appPc = "unit"
    /\ abortErr = NoErr
    /\ routes = {}
    /\ last = [kind |-> "none"]

\* ------------------------------------------------- FirebaseService.__new__
Goto(t, l) == pc' = [pc EXCEPT ![t] = l]

\* the exception leaves __new__: the call is over, nothing is returned
Raise(t, e) ==
    /\ pc' = [pc EXCEPT ![t] = "idle"]
    /\ err' = [err EXCEPT ![t] = e]

\* entry into FirebaseService(): the call's result slots are fresh
BeginCall(t) ==
    /\ pc[t] = "idle"
    /\ ncalls[t] < MaxCalls
    /\ ncalls' = [ncalls EXCEPT ![t] = @ + 1]
    /\ ret' = [ret EXCEPT ![t] = None]
    /\ err' = [err EXCEPT ![t] = NoErr]
    /\ Goto(t, "new10")
    /\ UNCHANGED <<path, handle>>
    /\ UNCHANGED <<classVars, envVars>>

\* a thread starts evaluating FirebaseService()
Call(t) ==
    /\ BeginCall(t)
    /\ UNCHANGED appVars

\* line 10: if cls._instance is None
NewCheckInstance(t) ==
    /\ pc[t] = "new10"
    /\ Goto(t, IF InstanceIsNone THEN "new11" ELSE "new13")
    /\ UNCHANGED <<path, handle, ret, err, ncalls>>
    /\ UNCHANGED <<classVars, envVars, appVars>>

\* line 11: cls._instance = super().__new__(cls)
NewCreateInstance(t) ==
    /\ pc[t] = "new11"
    /\ _instance' = nextObj
    /\ nextObj' = nextObj + 1
    /\ Goto(t, "init17")
    /\ UNCHANGED <<path, handle, ret, err, ncalls>>
    /\ UNCHANGED <<_app, apps, initCalls, envVars, appVars>>

\* line 17: if cls._app is None   (line 12 calls _initialize_firebase)
InitCheckApp(t) ==
    /\ pc[t] = "init17"
    /\ Goto(t, IF AppIsNone THEN "init18" ELSE "new13")
    /\ UNCHANGED <<path, handle, ret, err, ncalls>>
    /\ UNCHANGED <<classVars, envVars, appVars>>

\* line 18: FIREBASE_CRED_PATH = os.getenv(...)
InitGetenv(t) ==
    /\ pc[t] = "init18"
    /\ path' = [path EXCEPT ![t] = Getenv(environ)]
    /\ Goto(t, "init19")
    /\ UNCHANGED <<handle, ret, err, ncalls>>
    /\ UNCHANGED <<classVars, envVars, appVars>>

\* lines 19-20: if not os.path.exists(...): raise RuntimeError
InitCheckExists(t) ==
    /\ pc[t] = "init19"
    /\ IF CredentialMissing(path[t])
         THEN Raise(t, "RuntimeError")
         ELSE Goto(t, "init21") /\ UNCHANGED err
    /\ UNCHANGED <<path, handle, ret, ncalls>>
    /\ UNCHANGED <<classVars, envVars, appVars>>

\* line 21: cred = credentials.Certificate(FIREBASE_CRED_PATH)
\* firebase_admin opens and parses the file: it raises when the file cannot
\* be opened or is no service-account document.
InitCertificate(t) ==
    /\ pc[t] = "init21"
    /\ CASE files[path[t]] = "absent" -> Raise(t, "FileNotFoundError")
         [] files[path[t]] = "malformed" -> Raise(t, "CertificateError")
         [] OTHER -> Goto(t, "init22") /\ UNCHANGED err
    /\ UNCHANGED <<path, handle, ret, ncalls>>
    /\ UNCHANGED <<classVars, envVars, appVars>>

\* line 22, right-hand side: initialize_app(cred)
\* firebase_admin registers the default app under its own lock and raises
\* ValueError when the default app already exists.
InitInitializeApp(t) ==
    /\ pc[t] = "init22"
    /\ initCalls' = initCalls + 1
    /\ IF apps = None
         THEN /\ apps' = initCalls + 1
              /\ handle' = [handle EXCEPT ![t] = initCalls + 1]
              /\ Goto(t, "init22w")
              /\ UNCHANGED err
         ELSE /\ Raise(t, "ValueError")
              /\ UNCHANGED <<apps, handle>>
    /\ UNCHANGED <<path, ret, ncalls>>
    /\ UNCHANGED <<_instance, _app, nextObj, envVars, appVars>>

\* line 22, assignment: cls._app = <result>
InitAssignApp(t) ==
    /\ pc[t] = "init22w"
    /\ _app' = handle[t]
    /\ handle' = [handle EXCEPT ![t] = None]
    /\ Goto(t, "new13")
    /\ UNCHANGED <<path, ret, err, ncalls>>
    /\ UNCHANGED <<_instance, apps, nextObj, initCalls, envVars, appVars>>

\* line 13: return cls._instance
NewReturn(t) ==
    /\ pc[t] = "new13"
    /\ ret' = [ret EXCEPT ![t] = _instance]
    /\ Goto(t, "idle")
    /\ UNCHANGED <<path, handle, err, ncalls>>
    /\ UNCHANGED <<classVars, envVars, appVars>>

\* one step of a call in progress
Step(t) ==
    \/ NewCheckInstance(t)
    \/ NewCreateInstance(t)
    \/ InitCheckApp(t)
    \/ InitGetenv(t)
    \/ InitCheckExists(t)
    \/ InitCertificate(t)
    \/ InitInitializeApp(t)
    \/ InitAssignApp(t)
    \/ NewReturn(t)

\* ------------------------------------- the class used by concurrent threads
Next == \E t \in Threads : Call(t) \/ Step(t)

Spec == Init /\ [][Next]_vars

\* --------------------------- the class used by one caller after the other
NoCallInProgress == \A t \in Threads : pc[t] = "idle"

SeqCall(t) ==
    /\ NoCallInProgress
    /\ Call(t)

SeqNext == \E t \in Threads : SeqCall(t) \/ Step(t)

SeqSpec == Init /\ [][SeqNext]_vars

\* ------------------------------------------------------ app.py: start-up
\* load_dotenv() (override=False): a variable of .env is set in os.environ
\* only when os.environ does not have it already
LoadDotenvValue(env, file) == IF env # Unset THEN env ELSE file

\* names bound in the body of class FirebaseService (firebase.py 5-22)
FirebaseServiceAttrs == {"_instance", "_app", "__new__", "_initialize_firebase"}

AuthHeaders == {"<absent>", "Basic dXNlcg==", "Bearer <valid>", "Bearer <expired>"}
RequestPaths == {"/", "/users/me"}

\* root(): the handler of GET /
root == [status |-> 200,
         body |-> [message |-> "<h1>Service is running successfully</h1>"]]

\* FastAPI answers a path no route is registered for with 404
NotFound == [status |-> 404, body |-> [detail |-> "Not Found"]]

\* no listener is bound: the client's connection is refused, there is no
\* HTTP response
ConnectionRefused == [status |-> 0, body |-> [detail |-> "<connection refused>"]]

\* the ASGI server binds its listener once `import app` has returned
Listening == appPc = "serving"

Dispatch(p) ==
    IF p \in routes /\ p = "/" THEN root ELSE NotFound

AppInit ==
    /\ environ \in EnvValues
    /\ dotenv \in EnvValues
    /\ files \in [Paths -> FileStates]
    /\ ClassInit
    /\ ThreadInit
    /\ appPc = "app6"
    /\ abortErr = NoErr
    /\ routes = {}
    /\ last = [kind |-> "none"]

\* app.py line 6: from services.firebase import FirebaseService
\* runs firebase.py: the class statement, then line 26 FirebaseService()
ImportFirebase ==
    /\ appPc = "app6"
    /\ BeginCall(MainThread)
    /\ appPc' = "fb26"
    /\ UNCHANGED <<abortErr, routes, last>>

\* firebase.py line 26 returned: firebase_service is bound, the import is done
FirebaseServiceCreated ==
    /\ appPc = "fb26"
    /\ pc[MainThread] = "idle"
    /\ err[MainThread] = NoErr
    /\ appPc' = "app8"
    /\ UNCHANGED <<abortErr, routes, last>>
    /\ UNCHANGED <<classVars, threadVars, envVars>>

\* firebase.py line 26 raised: the exception leaves `import app`
ImportFirebaseFails ==
    /\ appPc = "fb26"
    /\ pc[MainThread] = "idle"
    /\ err[MainThread] # NoErr
    /\ appPc' = "aborted"
    /\ abortErr' = err[MainThread]
    /\ UNCHANGED <<routes, last>>
    /\ UNCHANGED <<classVars, threadVars, envVars>>

\* app.py line 8: app = FastAPI()
CreateApp ==
    /\ appPc = "app8"
    /\ routes' = {}
    /\ appPc' = "app9"
    /\ UNCHANGED <<abortErr, last>>
    /\ UNCHANGED <<classVars, threadVars, envVars>>

\* app.py line 9: load_dotenv()
LoadDotenv ==
    /\ appPc = "app9"
    /\ environ' = LoadDotenvValue(environ, dotenv)
    /\ appPc' = "app18"
    /\ UNCHANGED <<dotenv, files, abortErr, routes, last>>
    /\ UNCHANGED <<classVars, threadVars>>

\* app.py lines 18-20: @app.get('/') def root()
DefRoot ==
    /\ appPc = "app18"
    /\ routes' = routes \cup {"/"}
    /\ appPc' = "app22"
    /\ UNCHANGED <<abortErr, last>>
    /\ UNCHANGED <<classVars, threadVars, envVars>>

\* app.py lines 22-24: the default value Depends(FirebaseService.
\* verify_firebase_user) is evaluated when the def statement runs; the class
\* has no such attribute, so the statement raises AttributeError and the
\* exception leaves `import app`
DefGetCurrentUser ==
    /\ appPc = "app22"
    /\ "verify_firebase_user" \notin FirebaseServiceAttrs
    /\ appPc' = "aborted"
    /\ abortErr' = "AttributeError"
    /\ UNCHANGED <<routes, last>>
    /\ UNCHANGED <<classVars, threadVars, envVars>>

\* a client sends GET p with Authorization header a
Request(p, a) ==
    /\ last' = [kind |-> "request", path |-> p, auth |-> a, at |-> appPc,
                response |-> IF Listening THEN Dispatch(p) ELSE ConnectionRefused]
    /\ UNCHANGED <<appPc, abortErr, routes>>
    /\ UNCHANGED <<classVars, threadVars, envVars>>

AppNext ==
    \/ ImportFirebase
    \/ Step(MainThread)
    \/ FirebaseServiceCreated
    \/ ImportFirebaseFails
    \/ CreateApp
    \/ LoadDotenv
    \/ DefRoot
    \/ DefGetCurrentUser
    \/ \E p \in RequestPaths, a \in AuthHeaders : Request(p, a)

AppSpec == AppInit /\ [][AppNext]_vars

\* ------------------------------------------------------------ type checks
TypeOK ==
    /\ environ \in EnvValues
    /\ dotenv \in EnvValues
    /\ files \in [Paths -> FileStates]
    /\ _instance \in 0..(NumThreads * MaxCalls)
    /\ _app \in 0..(NumThreads * MaxCalls)
    /\ apps \in 0..(NumThreads * MaxCalls)
    /\ nextObj \in 1..(NumThreads * MaxCalls + 1)
    /\ initCalls \in 0..(NumThreads * MaxCalls)
    /\ pc \in [Threads -> {"idle", "new10", "new11", "new13", "init17",
                           "init18", "init19", "init21", "init22", "init22w"}]
    /\ path \in [Threads -> EnvValues]
    /\ handle \in [Threads -> 0..(NumThreads * MaxCalls)]
    /\ ret \in [Threads -> 0..(NumThreads * MaxCalls)]
    /\ err \in [Threads -> Errors]
    /\ ncalls \in [Threads -> 0..MaxCalls]
    /\ appPc \in {"unit", "app6", "fb26", "app8", "app9", "app18", "app22",
                  "aborted"}
    /\ abortErr \in Errors
    /\ routes \subseteq RequestPaths
    /\ last.kind \in {"none", "request"}

\* ================================================================ claims

Constructed == _instance # None /\ _app # None

\* a call of thread t has returned a value (it did not raise)
Returned(t) == pc[t] = "idle" /\ ncalls[t] > 0 /\ err[t] = NoErr

\* the import of app.py never completes, so no listener is ever bound and
\* the route /users/me is never registered
ImportNeverCompletes ==
    /\ ~Listening
    /\ "/users/me" \notin routes
    /\ (last.kind = "request" => last.response = ConnectionRefused)

\* C1: under concurrent construction attempts at cold start, initialize_app
\* is invoked at most once and no attempt ends in the duplicate-initialization
\* error (ValueError) of firebase_admin.
C1_InitializedOnce ==
    /\ initCalls <= 1
    /\ \A t \in Threads : err[t] # "ValueError"

\* a client's request made after the start-up has run to its end in a
\* process whose provider handle was constructed from a valid credential file
RequestAfterStartup(p) ==
    /\ last.kind = "request"
    /\ last.path = p
    /\ last.at \in {"aborted", "serving"}
    /\ _app # None

\* C2: every request to /users/me that carries a valid bearer token is
\* answered 200 with the token's subject id as uid and its email as email.
C2_ValidTokenGets200 ==
    (RequestAfterStartup("/users/me") /\ last.auth = "Bearer <valid>")
    => /\ last.response.status = 200
       /\ last.response.body = [uid |-> "abc", email |-> "a@b.com"]

\* C3: every request to /users/me without an Authorization header, or with
\* one that is not of the bearer scheme, is answered 401.
C3_MissingHeaderGets401 ==
    (RequestAfterStartup("/users/me")
       /\ last.auth \in {"<absent>", "Basic dXNlcg=="})
    => last.response.status = 401

\* C4: every request to /users/me whose bearer token fails verification is
\* answered 401.
C4_InvalidTokenGets401 ==
    (RequestAfterStartup("/users/me") /\ last.auth = "Bearer <expired>")
    => last.response.status = 401

\* the start-up's existence check has run on a path where no file exists
MissingCredentialStart ==
    /\ path[MainThread] # Unset
    /\ pc[MainThread] # "init19"
    /\ files[path[MainThread]] = "absent"

\* C5: when the credential file does not exist at the resolved path, the
\* initialization raises RuntimeError, no provider handle is constructed, the
\* import of app.py stops there with that error, and no request is answered.
C5_MissingCredentialAborts ==
    MissingCredentialStart
    => /\ err[MainThread] = "RuntimeError"
       /\ _app = None /\ apps = None /\ initCalls = 0
       /\ appPc \in {"fb26", "aborted"}
       /\ (appPc = "aborted" => abortErr = "RuntimeError")
       /\ routes = {}
       /\ (last.kind = "request" => last.response = ConnectionRefused)

\* C5 witness: the start-up aborted on a missing credential file and a
\* client's later request was refused.
C5_Witness ==
    /\ MissingCredentialStart
    /\ appPc = "aborted"
    /\ abortErr = "RuntimeError"
    /\ last.kind = "request"
    /\ last.at = "aborted"

\* C6: once a construction has succeeded, calls made one after the other
\* return the same instance, never invoke initialize_app again and leave
\* _instance and _app unchanged; initialize_app constructs at most one handle.
C6_SingletonIdempotent ==
    /\ [](Constructed => \A t \in Threads : Returned(t) => ret[t] = _instance)
    /\ [](initCalls <= 1)
    /\ [][Constructed => /\ _instance' = _instance
                         /\ _app' = _app
                         /\ apps' = apps
                         /\ initCalls' = initCalls]_vars

\* C6 witness: after a successful construction a thread's second call has
\* returned the instance.
C6_Witness ==
    /\ Constructed
    /\ \E t \in Threads : Returned(t) /\ ncalls[t] >= 2 /\ ret[t] = _instance

\* C9: whenever no call is in progress, _instance is set only if _app is set,
\* and a call that returned an instance returned it with _app set (also after
\* a call that raised).
C9_InstanceOnlyWithApp ==
    /\ NoCallInProgress => (_instance # None => _app # None)
    /\ \A t \in Threads : (Returned(t) /\ ret[t] # None) => _app # None

\* C10: the credential path the initialization checks is the value of
\* FIREBASE_CRED_PATH in effect after load_dotenv(): a value set only in .env
\* is used instead of the default.
C10_CredPathAfterDotenv ==
    path[MainThread] # Unset
    => path[MainThread] = Getenv(LoadDotenvValue(environ, dotenv))

=============================================================================
